---- MODULE Spec2Model ----
(***************************************************************************)
(* Model of the Service component of aws-container-pulumi (src/service.ts). *)
(*                                                                         *)
(* The program constructs Service components; each construction registers  *)
(* a fixed sequence of resource-creation requests with the provisioning    *)
(* engine.  The engine then creates the requested resources in any order   *)
(* that respects the declared dependency edges: the explicit dependsOn     *)
(* lists and the edges implied by one resource consuming another's output. *)
(*                                                                         *)
(* An optional JavaScript value (a `?:` field) is a sequence of length 0   *)
(* (undefined) or 1 (the value); `x ? a : b` and `x || d` are modelled by  *)
(* JavaScript truthiness, under which "" and 0 are falsy.                  *)
(***************************************************************************)
EXTENDS Integers, Sequences, FiniteSets, TLC

\* ---------------------------------------------------------------- bounds
\* autoscaling min / max are drawn from 1..MaxCapacity
MaxCapacity == 2

\* ------------------------------------------------------- input domains
\* unique names given to `new Service(name, ...)`
UniqueNames == {"service", "worker"}
\* the unique name used by the program that declares a single Service
MainName == "service"
\* the active deployment identifier, pulumi.getStack()
stack == "dev"

ServiceNames == {"nginx"}
Images == {"nginx:latest"}
Ports == {80, 8080}
Cpus == {<<>>, <<"">>, <<"1024">>}
Memories == {<<>>, <<"">>, <<"2048">>}
HostedZones == {<<>>, <<"">>, <<"labs.example.com">>}
Thresholds == {<<>>, <<0>>, <<50>>}

AutoscalingConfig ==
  [min : 1..MaxCapacity, max : 1..MaxCapacity, cpuAvgThreshold : Thresholds]

Autoscalings == {<<>>} \cup {<<a>> : a \in AutoscalingConfig}

ServiceConfig ==
  [name : ServiceNames, image : Images, port : Ports, cpu : Cpus,
   memory : Memories, autoscaling : Autoscalings, hostedZone : HostedZones]

\* ------------------------------------------------- JavaScript semantics
\* truthiness of an optional string: undefined and "" are falsy
TruthyStr(o) == o # <<>> /\ o[1] # ""
\* truthiness of an optional number: undefined and 0 are falsy
TruthyNum(o) == o # <<>> /\ o[1] # 0
\* truthiness of an optional object: only undefined is falsy
TruthyObj(o) == o # <<>>

\* ------------------------------------------------------ naming helper
stackName(name) == name \o "-" \o stack

\* a deferred output of the resource with logical name `res`
Output(res, attr) == <<"output", res, attr>>

\* --------------------------------------------- createLoadBalancer pieces
\* variant: tests `hostedZone !== undefined` instead of truthiness
exposedPort_definedCheck(hostedZone) == IF hostedZone # <<>> THEN 443 ELSE 80

exposedPort(hostedZone) == IF TruthyStr(hostedZone) THEN 443 ELSE 80

listenerProtocol(hostedZone) == IF TruthyStr(hostedZone) THEN "HTTPS" ELSE "HTTP"

serviceDomain(serviceName, hostedZone) ==
  stackName(serviceName) \o "." \o hostedZone[1]

\* logical names (first constructor argument) of the resources
LogicalName(this, kind) ==
  CASE kind = "albSecurityGroup"      -> this \o "-alb-security-group"
    [] kind = "alb"                   -> this \o "-app-lb"
    [] kind = "albTargetGroup"        -> this \o "-lb-target-group"
    [] kind = "dnsRecord"             -> this \o "-dns-record"
    [] kind = "cert"                  -> this \o "-certificate"
    [] kind = "validationDNS"         -> this \o "-certificate-dns-validation"
    [] kind = "certificateValidation" -> this \o "-certificate-validation"
    [] kind = "listener"              -> "listener"
    [] kind = "cluster"               -> this \o "-cluster"
    [] kind = "securityGroup"         -> this \o "-security-group"
    [] kind = "taskExecPolicy"        -> this \o "-task-exec-policy"
    [] kind = "role"                  -> this \o "-task-exec-role"
    [] kind = "taskDefinition"        -> this \o "-task-definitions"
    [] kind = "albEcsEgress"          -> this \o "-alb-ecs-egress"
    [] kind = "service"               -> this \o "-app-service"
    [] kind = "scalingTarget"         -> this \o "-scaling-target"
    [] kind = "scalingPolicy"         -> this \o "-scaling-policy"

\* resource types (the constructor that is called)
ResourceType(kind) ==
  CASE kind \in {"albSecurityGroup", "securityGroup"} -> "aws.ec2.SecurityGroup"
    [] kind = "alb"                   -> "aws.lb.LoadBalancer"
    [] kind = "albTargetGroup"        -> "aws.lb.TargetGroup"
    [] kind \in {"dnsRecord", "validationDNS"} -> "aws.route53.Record"
    [] kind = "cert"                  -> "aws.acm.Certificate"
    [] kind = "certificateValidation" -> "aws.acm.CertificateValidation"
    [] kind = "listener"              -> "aws.lb.Listener"
    [] kind = "cluster"               -> "aws.ecs.Cluster"
    [] kind = "taskExecPolicy"        -> "aws.iam.Policy"
    [] kind = "role"                  -> "aws.iam.Role"
    [] kind = "taskDefinition"        -> "aws.ecs.TaskDefinition"
    [] kind = "albEcsEgress"          -> "aws.ec2.SecurityGroupRule"
    [] kind = "service"               -> "aws.ecs.Service"
    [] kind = "scalingTarget"         -> "aws.appautoscaling.Target"
    [] kind = "scalingPolicy"         -> "aws.appautoscaling.Policy"

\* a resource-creation request: the variable it is bound to in the code
\* (kind), its logical name, the explicit dependsOn list and the resources
\* whose outputs its arguments consume
Request(this, kind, dependsOn, uses) ==
  [kind |-> kind, type |-> ResourceType(kind), name |-> LogicalName(this, kind),
   dependsOn |-> dependsOn, uses |-> uses]

albListenerConfig(this, hostedZone) ==
  [loadBalancerArn |-> Output(LogicalName(this, "alb"), "arn"),
   port |-> exposedPort(hostedZone),
   protocol |-> listenerProtocol(hostedZone),
   defaultActions |-> <<[type |-> "forward",
                         targetGroupArn |-> Output(LogicalName(this, "albTargetGroup"), "arn")]>>,
   certificateArn |-> IF TruthyStr(hostedZone)
                        THEN <<Output(LogicalName(this, "cert"), "arn")>>
                        ELSE <<>>]

\* variant: the certificate validation is never pushed onto the list
albListenerDependencies_targetGroupOnly(hostedZone) == {"albTargetGroup"}

albListenerDependencies(hostedZone) ==
  {"albTargetGroup"} \cup
    (IF TruthyStr(hostedZone) THEN {"certificateValidation"} ELSE {})

\* variant: the certificate validation is created without dependsOn
certificateValidationDependsOn_none == {}

certificateValidationDependsOn == {"validationDNS"}

\* the requests of the conditional TLS branch, in program order
tlsBranch(this, serviceName, hostedZone) ==
  IF TruthyStr(hostedZone)
    THEN << Request(this, "dnsRecord", {}, {"alb"}),
            Request(this, "cert", {}, {}),
            Request(this, "validationDNS", {}, {"cert"}),
            Request(this, "certificateValidation",
                    certificateValidationDependsOn, {"cert"}) >>
    ELSE << >>

listenerRequest(this, hostedZone) ==
  Request(this, "listener", albListenerDependencies(hostedZone),
          {"alb", "albTargetGroup"} \cup
            (IF TruthyStr(hostedZone) THEN {"cert"} ELSE {}))

\* createLoadBalancer: the requests it issues, the arguments of the
\* resources the claims are about, and its return value
createLoadBalancer(this, serviceName, hostedZone) ==
  [requests |->
     << Request(this, "albSecurityGroup", {}, {}),
        Request(this, "alb", {}, {"albSecurityGroup"}),
        Request(this, "albTargetGroup", {}, {}) >>
     \o tlsBranch(this, serviceName, hostedZone)
     \o << listenerRequest(this, hostedZone) >>,
   albSecurityGroup |-> [name |-> "alb-" \o stackName(serviceName),
                         ingressPort |-> exposedPort(hostedZone)],
   albTargetGroup |-> [port |-> 80, protocol |-> "HTTP", targetType |-> "ip"],
   listener |-> albListenerConfig(this, hostedZone),
   dnsRecord |-> IF TruthyStr(hostedZone)
                   THEN <<[name |-> serviceDomain(serviceName, hostedZone), type |-> "A"]>>
                   ELSE <<>>,
   cert |-> IF TruthyStr(hostedZone)
              THEN <<[domainName |-> serviceDomain(serviceName, hostedZone),
                      validationMethod |-> "DNS"]>>
              ELSE <<>>,
   result |-> [securityGroupId |-> Output(LogicalName(this, "albSecurityGroup"), "id"),
               targetGroupArn |-> Output(LogicalName(this, "albTargetGroup"), "arn"),
               dnsName |-> Output(LogicalName(this, "alb"), "dnsName")]]

\* ------------------------------------------------- constructor pieces
taskCpu(cpu) == IF TruthyStr(cpu) THEN cpu[1] ELSE "256"

taskMemory(memory) == IF TruthyStr(memory) THEN memory[1] ELSE "512"

\* variant: the host port is the target group's port instead of the configured one
portMappings_hostPort80(port) ==
  << [containerPort |-> port, hostPort |-> 80, protocol |-> "tcp"] >>

portMappings(port) ==
  << [containerPort |-> port, hostPort |-> port, protocol |-> "tcp"] >>

containerDefinitions(args) ==
  << [name |-> stackName(args.name),
      image |-> args.image,
      portMappings |-> portMappings(args.port),
      awslogsGroup |-> "awslogs-" \o stackName(args.name)] >>

taskDefinition(args) ==
  [family |-> "fargate-task-definition",
   cpu |-> taskCpu(args.cpu),
   memory |-> taskMemory(args.memory),
   networkMode |-> "awsvpc",
   containerDefinitions |-> containerDefinitions(args)]

serviceRequest(this) ==
  Request(this, "service", {},
          {"cluster", "taskDefinition", "securityGroup", "albTargetGroup"})

targetValue(cpuAvgThreshold) ==
  IF TruthyNum(cpuAvgThreshold) THEN cpuAvgThreshold[1] ELSE 75

scalingTarget(a) ==
  [minCapacity |-> a.min, maxCapacity |-> a.max,
   scalableDimension |-> "ecs:service:DesiredCount"]

scalingPolicy(a) ==
  [policyType |-> "TargetTrackingScaling",
   scalableDimension |-> "ecs:service:DesiredCount",
   targetValue |-> targetValue(a.cpuAvgThreshold)]

scalingPolicyRequest(this) ==
  Request(this, "scalingPolicy", {}, {"cluster", "service"})

autoscalingBranch(this, autoscaling) ==
  IF TruthyObj(autoscaling)
    THEN << Request(this, "scalingTarget", {}, {"cluster", "service"}),
            scalingPolicyRequest(this) >>
    ELSE << >>

\* variant: tests `hostedZone !== undefined` instead of truthiness
serviceUrl_definedCheck(this, args) ==
  IF args.hostedZone # <<>>
    THEN [scheme |-> "https://",
          host |-> <<"literal", stackName(args.name) \o "." \o args.hostedZone[1], "">>]
    ELSE [scheme |-> "http://",
          host |-> Output(LogicalName(this, "alb"), "dnsName")]

serviceUrl(this, args) ==
  IF TruthyStr(args.hostedZone)
    THEN [scheme |-> "https://",
          host |-> <<"literal", stackName(args.name) \o "." \o args.hostedZone[1], "">>]
    ELSE [scheme |-> "http://",
          host |-> Output(LogicalName(this, "alb"), "dnsName")]

\* the whole constructor: everything one `new Service(name, args)` produces
requestSequence(this, args) ==
  LET lb == createLoadBalancer(this, args.name, args.hostedZone) IN
     << Request(this, "cluster", {}, {}) >>
     \o lb.requests
     \o << Request(this, "securityGroup", {}, {"albSecurityGroup"}),
           Request(this, "taskExecPolicy", {}, {}),
           Request(this, "role", {}, {"taskExecPolicy"}),
           Request(this, "taskDefinition", {}, {"role"}),
           Request(this, "albEcsEgress", {}, {"albSecurityGroup", "securityGroup"}),
           serviceRequest(this) >>
     \o autoscalingBranch(this, args.autoscaling)

\* the requests of a sequence, indexed by the variable they are bound to
ByKind(reqs) ==
  [k \in {reqs[i].kind : i \in DOMAIN reqs} |->
     CHOOSE r \in {reqs[i] : i \in DOMAIN reqs} : r.kind = k]

NewService(this, args) ==
  LET lb == createLoadBalancer(this, args.name, args.hostedZone) IN
  [args |-> args,
   requests |-> ByKind(requestSequence(this, args)),
   listener |-> lb.listener,
   dnsRecord |-> lb.dnsRecord,
   cert |-> lb.cert,
   taskDefinition |-> taskDefinition(args),
   scalingTargets |-> IF TruthyObj(args.autoscaling)
                        THEN <<scalingTarget(args.autoscaling[1])>> ELSE <<>>,
   scalingPolicies |-> IF TruthyObj(args.autoscaling)
                         THEN <<scalingPolicy(args.autoscaling[1])>> ELSE <<>>,
   url |-> serviceUrl(this, args)]

\* ------------------------------------------------------------ state
VARIABLES
  services,   \* unique name -> what its constructor produced
  created     \* <<unique name, kind>> of the resources the engine has created

vars == <<services, created>>

Init ==
  /\ services = << >>
  /\ created = {}

Constructed == DOMAIN services

\* new Service(this, args): the unique name has not been used before
Construct(this, args) ==
  /\ this \notin Constructed
  /\ services' = [n \in Constructed \cup {this} |->
                    IF n = this THEN NewService(this, args) ELSE services[n]]
  /\ UNCHANGED created

Kinds(this) == DOMAIN services[this].requests

RequestOf(this, kind) == services[this].requests[kind]

\* the dependency edges the engine honours
DependenciesOf(r) == r.dependsOn \cup r.uses

\* the engine creates a requested resource once all it depends on exist
Create(this, kind) ==
  /\ this \in Constructed
  /\ kind \in Kinds(this)
  /\ <<this, kind>> \notin created
  /\ \A d \in DependenciesOf(RequestOf(this, kind)) : <<this, d>> \in created
  /\ created' = created \cup {<<this, kind>>}
  /\ UNCHANGED services

\* a program with one Service, applied by the engine
ConstructOne ==
  \E args \in ServiceConfig :
    Constructed = {} /\ Construct(MainName, args)

Apply == \E this \in Constructed : \E kind \in Kinds(this) : Create(this, kind)

Next == ConstructOne \/ Apply

Spec == Init /\ [][Next]_vars

\* a program with several Services: graph construction only.  The fields
\* that do not decide which requests are issued are held fixed.
PairConfig ==
  {c \in ServiceConfig : c.port = 80 /\ c.cpu = <<>> /\ c.memory = <<>>}

ConstructAny ==
  \E this \in UniqueNames, args \in PairConfig : Construct(this, args)

NextPair == ConstructAny

SpecPair == Init /\ [][NextPair]_vars

\* ------------------------------------------------------------ claims
\* a DNS zone was supplied: hostedZone holds a non-empty zone name
HostedZoneSet(n) ==
  services[n].args.hostedZone # <<>> /\ services[n].args.hostedZone[1] # ""

IsCreated(n, kind) == <<n, kind>> \in created

C2_PlainListener ==
  \A n \in Constructed :
    ~HostedZoneSet(n) =>
      /\ services[n].listener.port = 80
      /\ services[n].listener.protocol = "HTTP"
      /\ services[n].listener.certificateArn = <<>>
      /\ services[n].requests["listener"].dependsOn = {"albTargetGroup"}
      /\ Kinds(n) \cap {"cert", "dnsRecord", "validationDNS", "certificateValidation"} = {}
      /\ services[n].cert = <<>>
      /\ services[n].dnsRecord = <<>>

C2_Witness ==
  \E n \in Constructed :
    /\ services[n].args.hostedZone = <<>>
    /\ services[n].listener.port = 80
    /\ IsCreated(n, "listener")

C5_Autoscaling ==
  \A n \in Constructed :
    LET s == services[n] IN
    IF s.args.autoscaling # <<>>
      THEN /\ Len(s.scalingTargets) = 1
           /\ "scalingTarget" \in Kinds(n)
           /\ s.scalingTargets[1].minCapacity = s.args.autoscaling[1].min
           /\ s.scalingTargets[1].maxCapacity = s.args.autoscaling[1].max
           /\ Len(s.scalingPolicies) = 1
           /\ "scalingPolicy" \in Kinds(n)
           /\ s.scalingPolicies[1].targetValue =
                (IF s.args.autoscaling[1].cpuAvgThreshold # <<>>
                   THEN s.args.autoscaling[1].cpuAvgThreshold[1]
                   ELSE 75)
      ELSE /\ s.scalingTargets = <<>>
           /\ s.scalingPolicies = <<>>
           /\ Kinds(n) \cap {"scalingTarget", "scalingPolicy"} = {}

\* C6: the task definition has exactly one container with exactly one port
\* mapping, whose containerPort and hostPort both equal the configured port
\* with protocol tcp.
C6_PortMapping ==
  \A n \in Constructed :
    LET cd == services[n].taskDefinition.containerDefinitions IN
    /\ Len(cd) = 1
    /\ Len(cd[1].portMappings) = 1
    /\ cd[1].portMappings[1].containerPort = services[n].args.port
    /\ cd[1].portMappings[1].hostPort = services[n].args.port
    /\ cd[1].portMappings[1].protocol = "tcp"

C6_Witness ==
  \E n \in Constructed :
    /\ services[n].args.port = 8080
    /\ services[n].taskDefinition.containerDefinitions[1].portMappings[1].containerPort = 8080
    /\ IsCreated(n, "taskDefinition")

\* C7: the task definition's cpu is "256" when cpu is omitted and its
\* memory is "512" when memory is omitted; an explicit cpu or memory value
\* is carried unchanged, independently for each field.
C7_CpuMemory ==
  \A n \in Constructed :
    LET s == services[n] IN
    /\ s.taskDefinition.cpu = (IF s.args.cpu = <<>> THEN "256" ELSE s.args.cpu[1])
    /\ s.taskDefinition.memory = (IF s.args.memory = <<>> THEN "512" ELSE s.args.memory[1])

\* C8: two Service instances with distinct unique names never issue
\* requests that carry the same logical resource name.
C8_DistinctLogicalNames ==
  \A n, m \in Constructed :
    n # m =>
      \A k \in Kinds(n), l \in Kinds(m) :
        services[n].requests[k].name # services[m].requests[l].name

\* C9: in every creation order that respects the dependency edges, the ECS
\* service is created only after the listener.
C9_ServiceAfterListener ==
  \A n \in Constructed :
    IsCreated(n, "service") => IsCreated(n, "listener")

\* C10: in every creation order that respects the dependency edges, with
\* autoscaling present the scaling policy is created only after the
\* scaling target.
C10_PolicyAfterTarget ==
  \A n \in Constructed :
    services[n].args.autoscaling # <<>> =>
      (IsCreated(n, "scalingPolicy") => IsCreated(n, "scalingTarget"))

====
